---------------------------- MODULE Spec2Model ----------------------------
(***************************************************************************)
(* A model of orcabridge/source.py: the Source base class and GlobSource.  *)
(*                                                                         *)
(* Text is a sequence of tokens: single characters, and the words          *)
(* "GlobSource", " ⇒ " and the packet keys taken whole.  A path is what    *)
(* pathlib makes of a text: whether it is rooted, and its parts.  The      *)
(* directory the sources point at is one flat directory, "d"; its listing  *)
(* is a sequence without repetition, in the order the filesystem           *)
(* enumerates it.  Patterns have one segment (or are empty, or absolute).  *)
(***************************************************************************)
EXTENDS Naturals, Sequences, FiniteSets, TLC

VARIABLES
    objs,       \* the heap of GlobSource descriptors, by address
    born,       \* each descriptor as __init__ left it, and the arguments given (history)
    conErr,     \* the error the last constructor call raised
    conReads,   \* filesystem accesses made inside constructors
    listing,    \* the directory "d": its entries in enumeration order
    fsChanges,  \* how many times the directory was changed
    gens,       \* the heap of generator frames of forward.generator
    streams,    \* the consumers' streams, one per iteration
    last        \* the last value a consumer observed from __hash__/__eq__/__repr__

vars == <<objs, born, conErr, conReads, listing, fsChanges, gens, streams, last>>

(***************************************************************************)
(* Bounds.                                                                 *)
(***************************************************************************)
MaxSources == 2
MaxStreams == 2
MaxFsChanges == 1

(***************************************************************************)
(* Text and paths (pathlib).                                               *)
(***************************************************************************)
NoError == "none"

Last(s) == s[Len(s)]

RECURSIVE SplitOn(_, _)
\* str.split(sep): the segments of text s between separators
SplitOn(s, sep) ==
    IF \A i \in 1..Len(s) : s[i] # sep THEN <<s>>
    ELSE LET k == CHOOSE i \in 1..Len(s) : s[i] = sep /\ \A j \in 1..(i-1) : s[j] # sep
         IN  <<SubSeq(s, 1, k-1)>> \o SplitOn(SubSeq(s, k+1, Len(s)), sep)

RECURSIVE JoinWith(_, _)
\* sep.join(parts)
JoinWith(parts, sep) ==
    IF parts = <<>> THEN <<>>
    ELSE IF Len(parts) = 1 THEN parts[1]
    ELSE parts[1] \o <<sep>> \o JoinWith(Tail(parts), sep)

\* Path(text): empty and "." segments are dropped, a leading "/" is the root
PathOf(text) ==
    [root  |-> text # <<>> /\ text[1] = "/",
     parts |-> SelectSeq(SplitOn(text, "/"), LAMBDA p : p # <<>> /\ p # <<".">>)]

\* path / text: an absolute right operand replaces the left one
PathJoin(p, text) ==
    LET q == PathOf(text)
    IN  IF q.root THEN q ELSE [root |-> p.root, parts |-> p.parts \o q.parts]

\* str(path)
PathStr(p) ==
    IF p.root THEN <<"/">> \o JoinWith(p.parts, "/")
    ELSE IF p.parts = <<>> THEN <<".">>
    ELSE JoinWith(p.parts, "/")

\* path.stem: the final part up to its last dot, when that dot is neither
\* its first nor its last character
PathStem(p) ==
    LET name == IF p.parts = <<>> THEN <<>> ELSE Last(p.parts)
        dots == {i \in 1..Len(name) : name[i] = "."}
    IN  IF dots = {} THEN name
        ELSE LET i == CHOOSE d \in dots : \A e \in dots : e <= d
             IN  IF 1 < i /\ i < Len(name) THEN SubSeq(name, 1, i-1) ELSE name

(***************************************************************************)
(* Path.glob(pattern) for a one-segment pattern.                           *)
(***************************************************************************)
\* in fnmatch, the index of the "]" closing the class opened at pat[1]
\* (0 when it is never closed): a "!" and a "]" right after "[" are skipped
ClassEnd(pat) ==
    LET a == IF Len(pat) >= 2 /\ pat[2] = "!" THEN 3 ELSE 2
        b == IF Len(pat) >= a /\ pat[a] = "]" THEN a + 1 ELSE a
        c == {j \in b..Len(pat) : pat[j] = "]"}
    IN  IF c = {} THEN 0 ELSE CHOOSE j \in c : \A k \in c : j <= k

RECURSIVE FnMatch(_, _)
\* fnmatch.fnmatchcase(s, pat): * any run, ? one character, [..] a class
FnMatch(pat, s) ==
    IF pat = <<>> THEN s = <<>>
    ELSE IF pat[1] = "*" THEN
        FnMatch(Tail(pat), s) \/ (s # <<>> /\ FnMatch(pat, Tail(s)))
    ELSE IF pat[1] = "?" THEN
        s # <<>> /\ FnMatch(Tail(pat), Tail(s))
    ELSE IF pat[1] = "[" /\ ClassEnd(pat) # 0 THEN
        LET e   == ClassEnd(pat)
            neg == pat[2] = "!"
            set == {pat[j] : j \in (IF neg THEN 3 ELSE 2)..(e-1)}
        IN  /\ s # <<>>
            /\ (s[1] \in set) # neg
            /\ FnMatch(SubSeq(pat, e+1, Len(pat)), Tail(s))
    ELSE s # <<>> /\ s[1] = pat[1] /\ FnMatch(Tail(pat), Tail(s))

DirPath == [root |-> FALSE, parts |-> <<<<"d">>>>]

\* Path(p).glob(pattern) against the directory as it is listed now: the
\* error it raises, the paths it will yield in order, and whether it got as
\* far as the filesystem.  The pattern is checked before the root is looked
\* at; a root that is no directory yields nothing; the directory is listed
\* once, when the walk starts, and hidden names match like any other
PathGlob(p, pattern, entries) ==
    IF pattern = <<>> THEN
        [err |-> "ValueError", files |-> <<>>, reads |-> 0]
    ELSE IF PathOf(pattern).root THEN
        [err |-> "NotImplementedError", files |-> <<>>, reads |-> 0]
    ELSE IF p # DirPath THEN
        [err |-> NoError, files |-> <<>>, reads |-> 1]
    ELSE
        LET hit  == SelectSeq(entries, LAMBDA e : FnMatch(pattern, e))
        IN  [err   |-> NoError,
             files |-> [i \in 1..Len(hit) |-> PathJoin(p, hit[i])],
             reads |-> 1]

(***************************************************************************)
(* Tag functions.  A function value is a reference; calling it gives a tag *)
(* or raises.                                                              *)
(***************************************************************************)
\* GlobSource.default_tag_function: lambda f: {"file_name": Path(f).stem}
DefaultTagFunction(f) == [err |-> NoError, tag |-> ("file_name" :> PathStem(f))]

\* the docstring's custom function: lambda f: {'date': Path(f).stem[:8]}
DateTag(f) ==
    [err |-> NoError,
     tag |-> ("date" :> SubSeq(PathStem(f), 1, IF Len(PathStem(f)) < 8 THEN Len(PathStem(f)) ELSE 8))]

\* a caller's function that raises for the file whose stem is "b"
StrictTag(f) ==
    IF PathStem(f) = <<"b">> THEN [err |-> "KeyError", tag |-> <<>>]
    ELSE [err |-> NoError, tag |-> ("group" :> PathStem(f))]

\* tag_function(file), by the reference held
TagCall(tf, f) ==
    CASE tf = "default_tag_function" -> DefaultTagFunction(f)
      [] tf = "date_tag"             -> DateTag(f)
      [] tf = "strict_tag"           -> StrictTag(f)

(***************************************************************************)
(* GlobSource.                                                             *)
(***************************************************************************)
\* a constructor that validates its root eagerly (not the code's)
EagerInit(id, name, file_path, pattern, tag_function) ==
    [obj   |-> [id |-> id, source |-> id, name |-> name, file_path |-> file_path,
                pattern |-> pattern,
                tag_function |-> IF tag_function = "None" THEN "default_tag_function"
                                 ELSE tag_function],
     err   |-> PathGlob(PathOf(file_path), pattern, <<>>).err,
     reads |-> 1]

\* GlobSource.__init__ (with Source.__init__): the descriptor at address id
GlobSourceInit(id, name, file_path, pattern, tag_function) ==
    [obj   |-> [id |-> id, source |-> id, name |-> name, file_path |-> file_path,
                pattern |-> pattern,
                tag_function |-> IF tag_function = "None" THEN "default_tag_function"
                                 ELSE tag_function],
     err   |-> NoError,
     reads |-> 0]

\* object.__hash__: by address (not the code's)
AddressHash(self) == <<"object", self.id>>

\* GlobSource.__hash__: the hash of a tuple is a function of its elements;
\* the model takes the tuple itself for it, so no two tuples collide
GlobSourceHash(self) ==
    <<"GlobSource", self.name, self.file_path, self.pattern, self.tag_function>>

\* equality of two descriptors, as the specification defines it
GlobSourceEq(a, b) ==
    <<"GlobSource", a.name, a.file_path, a.pattern, a.tag_function>>
        = <<"GlobSource", b.name, b.file_path, b.pattern, b.tag_function>>

\* a __repr__ that shows the root only (not the code's)
RootRepr(self) ==
    <<"GlobSource", "(">> \o PathStr(PathOf(self.file_path)) \o <<")", " ⇒ ", self.name>>

\* GlobSource.__repr__
GlobSourceRepr(self) ==
    <<"GlobSource", "(">> \o PathStr(PathJoin(PathOf(self.file_path), self.pattern))
        \o <<")", " ⇒ ", self.name>>

\* a generator frame that has not run yet
NewFrame(o) ==
    [obj |-> o, status |-> "created", err |-> NoError, seen |-> <<>>, files |-> <<>>,
     pos |-> 0, tagCalls |-> 0, fsReads |-> 0]

\* a forward that keeps one generator per descriptor (not the code's)
CachedForward(os, gs, o) ==
    IF \E g \in 1..Len(gs) : gs[g].obj = o
    THEN [objs |-> os, gens |-> gs, gen |-> CHOOSE g \in 1..Len(gs) : gs[g].obj = o]
    ELSE [objs |-> os, gens |-> Append(gs, NewFrame(o)), gen |-> Len(gs) + 1]

\* a forward that stores the resolved root back into the descriptor (not the code's)
StoringForward(os, gs, o) ==
    [objs |-> [os EXCEPT ![o].file_path = PathStr(PathOf(@))],
     gens |-> Append(gs, NewFrame(o)),
     gen  |-> Len(gs) + 1]

\* GlobSource.forward: a new stream over a new generator; nothing runs yet
forward(os, gs, o) ==
    [objs |-> os, gens |-> Append(gs, NewFrame(o)), gen |-> Len(gs) + 1]

\* Operation.__call__ on a source: the stream forward returns
Call(os, gs, o) == forward(os, gs, o)

\* a direct iteration that resumes the latest stream of the source (not the code's)
ResumingIter(os, gs, o) ==
    IF \E g \in 1..Len(gs) : gs[g].obj = o
    THEN [objs |-> os, gens |-> gs,
          gen  |-> CHOOSE g \in 1..Len(gs) : gs[g].obj = o /\ \A h \in 1..Len(gs) : gs[h].obj = o => h <= g]
    ELSE Call(os, gs, o)

\* Source.__iter__: yield from self()
SourceIter(os, gs, o) == Call(os, gs, o)

(***************************************************************************)
(* forward.generator, one request at a time.  A frame is "created" until   *)
(* its first request, then "running", and ends "done" (exhausted) or       *)
(* "raised" (an exception left it).                                        *)
(***************************************************************************)
\* the result of one request: the frame after it, and what the consumer gets
Stop(g)      == [gen |-> g, kind |-> "stop",  item |-> <<>>, err |-> NoError]
Raise(g, e)  == [gen |-> g, kind |-> "raise", item |-> <<>>, err |-> e]
Yield(g, it) == [gen |-> g, kind |-> "item",  item |-> it,   err |-> NoError]

\* an opening that lists a missing root with os.scandir (not the code's)
OpenedStrict(self, entries, g) ==
    LET r == PathGlob(PathOf(self.file_path), self.pattern, entries)
        e == IF r.err = NoError /\ PathOf(self.file_path) # DirPath
             THEN "FileNotFoundError" ELSE r.err
    IN  [g EXCEPT !.status  = IF e = NoError THEN "running" ELSE "raised",
                  !.err     = e,
                  !.seen    = entries,
                  !.files   = r.files,
                  !.fsReads = r.reads]

\* an opening that computes every tag before the first item (not the code's)
OpenedEager(self, entries, g) ==
    LET r == PathGlob(PathOf(self.file_path), self.pattern, entries)
    IN  [g EXCEPT !.status   = IF r.err = NoError THEN "running" ELSE "raised",
                  !.err      = r.err,
                  !.seen     = entries,
                  !.files    = r.files,
                  !.fsReads  = r.reads,
                  !.tagCalls = Len(r.files)]

\* the first request starts the for statement: Path(self.file_path).glob(self.pattern)
Opened(self, entries, g) ==
    LET r == PathGlob(PathOf(self.file_path), self.pattern, entries)
    IN  [g EXCEPT !.status  = IF r.err = NoError THEN "running" ELSE "raised",
                  !.err     = r.err,
                  !.seen    = entries,
                  !.files   = r.files,
                  !.fsReads = r.reads]

\* a loop body that stores the file under a fixed key (not the code's)
EmitFixedKey(self, h) ==
    LET file == h.files[h.pos + 1]
        t    == TagCall(self.tag_function, file)
    IN  IF t.err # NoError
        THEN Raise([h EXCEPT !.status = "raised", !.err = t.err, !.tagCalls = @ + 1], t.err)
        ELSE Yield([h EXCEPT !.pos = @ + 1, !.tagCalls = @ + 1],
                   <<t.tag, ("file" :> file)>>)

RECURSIVE EmitSkipping(_, _)
\* a loop body that skips a file whose tag cannot be computed (not the code's)
EmitSkipping(self, h) ==
    LET file == h.files[h.pos + 1]
        t    == TagCall(self.tag_function, file)
        n    == [h EXCEPT !.pos = @ + 1, !.tagCalls = @ + 1]
    IN  IF t.err = NoError THEN Yield(n, <<t.tag, (self.name :> file)>>)
        ELSE IF n.pos = Len(n.files) THEN Stop([n EXCEPT !.status = "done"])
        ELSE EmitSkipping(self, n)

\* the loop body for the next file: yield self.tag_function(file), {self.name: file}
Emit(self, h) ==
    LET file == h.files[h.pos + 1]
        t    == TagCall(self.tag_function, file)
    IN  IF t.err # NoError
        THEN Raise([h EXCEPT !.status = "raised", !.err = t.err, !.tagCalls = @ + 1], t.err)
        ELSE Yield([h EXCEPT !.pos = @ + 1, !.tagCalls = @ + 1],
                   <<t.tag, (self.name :> file)>>)

\* next() on the generator of frame g, with the directory listed as entries
generatorNext(os, entries, g) ==
    LET self == os[g.obj]
        h    == IF g.status = "created" THEN Opened(self, entries, g) ELSE g
    IN  IF g.status \in {"done", "raised"} THEN Stop(g)
        ELSE IF h.status = "raised" THEN Raise(h, h.err)
        ELSE IF h.pos = Len(h.files) THEN Stop([h EXCEPT !.status = "done"])
        ELSE Emit(self, h)

\* SyncStreamFromGenerator: iterating the stream runs the generator it was
\* made from and hands on what that yields or raises
StreamNext(os, entries, g) == generatorNext(os, entries, g)

(***************************************************************************)
(* Inputs.                                                                 *)
(***************************************************************************)
FileNames == {<<"a", ".", "t">>, <<"b", ".", "t">>, <<"c", ".", "g">>}
Names     == {"txt_file", "f"}
RootTexts == {<<"d">>, <<"n">>}
Patterns  == {<<"*", ".", "t">>, <<"?", ".", "[", "t", "g", "]">>, <<>>, <<"/", "x">>}
TagArgs   == {"None", "strict_tag"}

\* the descriptor two streams are taken from, and the directory under it
PairFileNames == {<<"a", ".", "t">>, <<"b", ".", "t">>}
PairNames     == {"txt_file"}
PairRootTexts == {<<"d", "/">>}
PairPatterns  == {<<"*", ".", "t">>}
PairTagArgs   == {"None", "strict_tag"}

\* the descriptors that are compared, hashed and printed
DescrRootTexts == {<<"d">>, <<"d", "/">>}
DescrPatterns  == {<<"*", ".", "t">>, <<>>, <<"/", "x">>}
DescrTagArgs   == {"None", "default_tag_function", "date_tag"}

\* every order in which a filesystem may enumerate the names of S
Orders(S) == {q \in [1..Cardinality(S) -> S] : \A i, j \in 1..Cardinality(S) : q[i] = q[j] => i = j}

Listings == UNION {Orders(S) : S \in SUBSET FileNames}

PairListings == UNION {Orders(S) : S \in SUBSET PairFileNames}

NoObservation == [op |-> "none", a |-> 0, b |-> 0, eq |-> FALSE, ha |-> <<>>, hb |-> <<>>, text |-> <<>>]

(***************************************************************************)
(* The consumers' steps.                                                   *)
(***************************************************************************)
\* GlobSource(name, file_path, pattern, tag_function)
Construct(name, file_path, pattern, tag_function) ==
    /\ LET r == GlobSourceInit(Len(objs) + 1, name, file_path, pattern, tag_function)
       IN  /\ objs' = IF r.err = NoError THEN Append(objs, r.obj) ELSE objs
           /\ born' = IF r.err = NoError
                      THEN Append(born, [self |-> r.obj,
                                         args |-> [name |-> name, file_path |-> file_path,
                                                   pattern |-> pattern,
                                                   tag_function |-> tag_function]])
                      ELSE born
           /\ conErr' = r.err
           /\ conReads' = conReads + r.reads
    /\ UNCHANGED <<listing, fsChanges, gens, streams, last>>

NewStream(o, via, g) ==
    [obj |-> o, via |-> via, gen |-> g, out |-> <<>>, err |-> NoError,
     requests |-> 0, ended |-> FALSE]

\* stream = source(): the consumer invokes the descriptor
Invoke(o) ==
    /\ LET r == Call(objs, gens, o)
       IN  /\ objs' = r.objs
           /\ gens' = r.gens
           /\ streams' = Append(streams, NewStream(o, "invoke", r.gen))
    /\ UNCHANGED <<born, conErr, conReads, listing, fsChanges, last>>

\* it = iter(source): the consumer iterates the descriptor itself; the body
\* of Source.__iter__ has not run yet
Iterate(o) ==
    /\ streams' = Append(streams, NewStream(o, "iter", 0))
    /\ UNCHANGED <<objs, born, conErr, conReads, listing, fsChanges, gens, last>>

\* next(it) on stream s; requests counts them up to the one that ends the
\* stream (a later one finds the generator finished and changes nothing)
NextItem(s) ==
    LET st   == streams[s]
        open == IF st.gen = 0 THEN SourceIter(objs, gens, st.obj)
                ELSE [objs |-> objs, gens |-> gens, gen |-> st.gen]
        step == StreamNext(open.objs, listing, open.gens[open.gen])
    IN  /\ objs' = open.objs
        /\ gens' = [open.gens EXCEPT ![open.gen] = step.gen]
        /\ streams' = [streams EXCEPT ![s] =
                         [st EXCEPT !.gen      = open.gen,
                                    !.out      = IF step.kind = "item" THEN Append(@, step.item) ELSE @,
                                    !.err      = IF step.kind = "raise" THEN step.err ELSE @,
                                    !.requests = IF st.ended THEN @ ELSE @ + 1,
                                    !.ended    = step.kind # "item"]]
        /\ UNCHANGED <<born, conErr, conReads, listing, fsChanges, last>>

\* another process creates a file in the directory
CreateFile(n, k) ==
    /\ fsChanges < MaxFsChanges
    /\ \A i \in 1..Len(listing) : listing[i] # n
    /\ listing' = SubSeq(listing, 1, k) \o <<n>> \o SubSeq(listing, k + 1, Len(listing))
    /\ fsChanges' = fsChanges + 1
    /\ UNCHANGED <<objs, born, conErr, conReads, gens, streams, last>>

\* another process removes a file from the directory
RemoveFile(k) ==
    /\ fsChanges < MaxFsChanges
    /\ listing' = SubSeq(listing, 1, k - 1) \o SubSeq(listing, k + 1, Len(listing))
    /\ fsChanges' = fsChanges + 1
    /\ UNCHANGED <<objs, born, conErr, conReads, gens, streams, last>>

\* a == b, hash(a), hash(b)
Compare(i, j) ==
    /\ last' = [NoObservation EXCEPT !.op = "compare", !.a = i, !.b = j,
                                      !.eq = GlobSourceEq(objs[i], objs[j]),
                                      !.ha = GlobSourceHash(objs[i]),
                                      !.hb = GlobSourceHash(objs[j])]
    /\ UNCHANGED <<objs, born, conErr, conReads, listing, fsChanges, gens, streams>>

\* repr(a)
Show(i) ==
    /\ last' = [NoObservation EXCEPT !.op = "repr", !.a = i, !.b = i,
                                      !.text = GlobSourceRepr(objs[i])]
    /\ UNCHANGED <<objs, born, conErr, conReads, listing, fsChanges, gens, streams>>

(***************************************************************************)
(* Spec: one descriptor of any configuration over a directory of any       *)
(* content and enumeration order, and the streams taken from it.           *)
(***************************************************************************)
Init ==
    /\ objs = <<>>
    /\ born = <<>>
    /\ conErr = NoError
    /\ conReads = 0
    /\ listing \in Listings
    /\ fsChanges = 0
    /\ gens = <<>>
    /\ streams = <<>>
    /\ last = NoObservation

Next ==
    \/ /\ objs = <<>>
       /\ \E name \in Names, file_path \in RootTexts, pattern \in Patterns, tag_function \in TagArgs :
              Construct(name, file_path, pattern, tag_function)
    \/ /\ Len(streams) < MaxStreams
       /\ \E o \in 1..Len(objs) : Invoke(o)
    \/ /\ Len(streams) < MaxStreams
       /\ \E o \in 1..Len(objs) : Iterate(o)
    \/ \E s \in 1..Len(streams) : NextItem(s)

Spec == Init /\ [][Next]_vars

(***************************************************************************)
(* SpecPair: several streams of one descriptor, consumed in any            *)
(* interleaving while the directory changes.                               *)
(***************************************************************************)
InitPair ==
    /\ objs = <<>>
    /\ born = <<>>
    /\ conErr = NoError
    /\ conReads = 0
    /\ listing \in PairListings
    /\ fsChanges = 0
    /\ gens = <<>>
    /\ streams = <<>>
    /\ last = NoObservation

NextPair ==
    \/ /\ objs = <<>>
       /\ \E name \in PairNames, file_path \in PairRootTexts, pattern \in PairPatterns,
             tag_function \in PairTagArgs :
              Construct(name, file_path, pattern, tag_function)
    \/ /\ Len(streams) < MaxStreams
       /\ \E o \in 1..Len(objs) : Invoke(o)
    \/ /\ Len(streams) < MaxStreams
       /\ \E o \in 1..Len(objs) : Iterate(o)
    \/ \E s \in 1..Len(streams) : NextItem(s)
    \/ \E n \in PairFileNames, k \in 0..Len(listing) : CreateFile(n, k)
    \/ \E k \in 1..Len(listing) : RemoveFile(k)

SpecPair == InitPair /\ [][NextPair]_vars

(***************************************************************************)
(* SpecDescr: descriptors are constructed, compared, hashed and printed.   *)
(***************************************************************************)
InitDescr ==
    /\ objs = <<>>
    /\ born = <<>>
    /\ conErr = NoError
    /\ conReads = 0
    /\ listing = <<>>
    /\ fsChanges = 0
    /\ gens = <<>>
    /\ streams = <<>>
    /\ last = NoObservation

NextDescr ==
    \/ /\ Len(objs) < MaxSources
       /\ \E name \in Names, file_path \in DescrRootTexts, pattern \in DescrPatterns,
             tag_function \in DescrTagArgs :
              Construct(name, file_path, pattern, tag_function)
    \/ \E i, j \in 1..Len(objs) : Compare(i, j)
    \/ \E i \in 1..Len(objs) : Show(i)

SpecDescr == InitDescr /\ [][NextDescr]_vars

(***************************************************************************)
(* What the properties below speak of.                                     *)
(***************************************************************************)
\* stream s has run the body of its generator at least once
Started(s) == streams[s].gen # 0 /\ gens[streams[s].gen].status # "created"

\* the directory as the walk of stream s listed it
SeenBy(s) == gens[streams[s].gen].seen

\* the tag function a constructor call asked for
GivenTag(args, file) ==
    IF args.tag_function = "None" THEN [err |-> NoError, tag |-> ("file_name" :> PathStem(file))]
    ELSE TagCall(args.tag_function, file)

\* the files of a directory listing that a constructor call's root and pattern select
MatchesOf(args, seen) ==
    IF PathOf(args.file_path) = DirPath
    THEN LET hit == SelectSeq(seen, LAMBDA e : FnMatch(args.pattern, e))
         IN  [i \in 1..Len(hit) |-> [root |-> FALSE, parts |-> <<<<"d">>, hit[i]>>]]
    ELSE <<>>

\* the item the stream owes for a file
ItemFor(args, file) == <<GivenTag(args, file).tag, (args.name :> file)>>

\* the glob facility rejects the pattern as malformed
Rejected(pattern) == pattern = <<>> \/ pattern[1] = "/"

\* the first match whose tag cannot be computed (0 when there is none)
FirstFailure(args, files) ==
    LET bad == {i \in 1..Len(files) : GivenTag(args, files[i]).err # NoError}
    IN  IF bad = {} THEN 0 ELSE CHOOSE i \in bad : \A j \in bad : i <= j

\* stream s has delivered, in order, the items of the first matches of its own walk
OwnPrefix(s) ==
    LET st    == streams[s]
        args  == born[st.obj].args
        files == MatchesOf(args, SeenBy(s))
    IN  /\ Len(st.out) <= Len(files)
        /\ \A i \in 1..Len(st.out) :
              /\ GivenTag(args, files[i]).err = NoError
              /\ st.out[i] = ItemFor(args, files[i])

(***************************************************************************)
(* C1: a stream consumed to its end has yielded exactly one item per file  *)
(* of the directory that matches the pattern and none for any other file;  *)
(* the item of a file is (t(file), {name: file}), t being the tag function *)
(* given to the constructor or, when none was given, the default           *)
(* {"file_name": stem}.                                                    *)
(***************************************************************************)
C1_OneItemPerMatch ==
    \A s \in 1..Len(streams) :
        LET st    == streams[s]
            args  == born[st.obj].args
        IN  (st.ended /\ st.err = NoError) =>
                LET files == MatchesOf(args, SeenBy(s))
                IN  /\ Len(st.out) = Len(files)
                    /\ \A i \in 1..Len(files) :
                          Cardinality({k \in 1..Len(st.out) : st.out[k] = ItemFor(args, files[i])}) = 1
                    /\ \A k \in 1..Len(st.out) :
                          \E i \in 1..Len(files) : st.out[k] = ItemFor(args, files[i])

\* a stream built without a tag function ended after two items in a
\* directory that also holds a file the pattern does not match
C1_Witness ==
    \E s \in 1..Len(streams) :
        /\ streams[s].ended /\ streams[s].err = NoError
        /\ Len(streams[s].out) = 2
        /\ Len(SeenBy(s)) = 3
        /\ born[streams[s].obj].args.tag_function = "None"

(***************************************************************************)
(* C2: the streams of one descriptor are independent: whatever the         *)
(* interleaving of requests, each has delivered exactly the first items of *)
(* its own walk, one per request, from the start, no two share a           *)
(* generator, and one that ended without error has delivered its whole     *)
(* match set.                                                              *)
(***************************************************************************)
C2_IndependentStreams ==
    /\ \A s, t \in 1..Len(streams) :
          (s # t /\ streams[s].gen # 0) => streams[s].gen # streams[t].gen
    /\ \A s \in 1..Len(streams) :
          Started(s) =>
              /\ OwnPrefix(s)
              /\ ~streams[s].ended => Len(streams[s].out) = streams[s].requests
              /\ (streams[s].ended /\ streams[s].err = NoError) =>
                     Len(streams[s].out) = Len(MatchesOf(born[streams[s].obj].args, SeenBy(s)))

\* one stream was consumed to its end while another, begun on a different
\* directory content, is halfway
C2_Witness ==
    \E s, t \in 1..Len(streams) :
        /\ Started(s) /\ Started(t)
        /\ streams[s].ended /\ streams[s].err = NoError /\ Len(streams[s].out) = 2
        /\ ~streams[t].ended /\ Len(streams[t].out) = 1
        /\ SeenBy(s) # SeenBy(t)

C4_FailFast ==
    \A s \in 1..Len(streams) :
        Started(s) =>
            LET st    == streams[s]
                args  == born[st.obj].args
                files == MatchesOf(args, SeenBy(s))
                k     == FirstFailure(args, files)
            IN  (~Rejected(args.pattern) /\ k # 0) =>
                    /\ Len(st.out) < k
                    /\ \A i \in 1..Len(st.out) : st.out[i] = ItemFor(args, files[i])
                    /\ st.requests <= k
                    /\ st.requests = k =>
                          /\ st.ended
                          /\ st.err = GivenTag(args, files[k]).err
                          /\ Len(st.out) = k - 1
                    /\ st.err # NoError => st.requests = k

\* the second of three matches failed: one item is delivered, the error is
\* the consumer's, and a later match was never delivered
C4_Witness ==
    \E s \in 1..Len(streams) :
        /\ Started(s)
        /\ streams[s].err = "KeyError"
        /\ streams[s].ended
        /\ Len(streams[s].out) = 1
        /\ Len(MatchesOf(born[streams[s].obj].args, SeenBy(s))) = 3

(***************************************************************************)
(* C5: a constructor call reads nothing from the filesystem and raises     *)
(* nothing, whatever the root and the pattern; the filesystem is read and  *)
(* an error of the glob facility reaches the consumer only at a request on *)
(* a stream.                                                               *)
(***************************************************************************)
C5_LazyConstruction ==
    /\ conErr = NoError
    /\ conReads = 0
    /\ \A g \in 1..Len(gens) :
          (gens[g].fsReads > 0 \/ gens[g].err # NoError) =>
              \E s \in 1..Len(streams) : streams[s].gen = g /\ streams[s].requests >= 1
    /\ \A s \in 1..Len(streams) :
          streams[s].err # NoError => streams[s].requests >= 1
    /\ \A s \in 1..Len(streams) :
          (streams[s].requests >= 1 /\ Rejected(born[streams[s].obj].args.pattern)) =>
              streams[s].err \in {"ValueError", "NotImplementedError"}

\* a descriptor with a missing root and an empty pattern was constructed,
\* and the first request on its stream raised the glob facility's error
C5_Witness ==
    \E s \in 1..Len(streams) :
        /\ born[streams[s].obj].args.file_path = <<"n">>
        /\ born[streams[s].obj].args.pattern = <<>>
        /\ streams[s].requests = 1
        /\ streams[s].err = "ValueError"

(***************************************************************************)
(* C6, as the specification states it: when the root does not exist or the *)
(* pattern matches no file, a stream that was asked for an item has ended  *)
(* with no item and no error.                                              *)
(***************************************************************************)
C6_EmptyNotAnError_Original ==
    \A s \in 1..Len(streams) :
        Started(s) =>
            LET st   == streams[s]
                args == born[st.obj].args
            IN  (\/ PathOf(args.file_path) # DirPath
                 \/ \A i \in 1..Len(SeenBy(s)) : ~FnMatch(args.pattern, SeenBy(s)[i])) =>
                    (st.out = <<>> /\ st.ended /\ st.err = NoError)

(***************************************************************************)
(* C6, amended: when the glob facility does not reject the pattern as      *)
(* malformed, and the root does not exist or the pattern matches no file,  *)
(* a stream that was asked for an item has ended with no item and no       *)
(* error.                                                                  *)
(***************************************************************************)
C6_EmptyNotAnError ==
    \A s \in 1..Len(streams) :
        Started(s) =>
            LET st   == streams[s]
                args == born[st.obj].args
            IN  (/\ ~Rejected(args.pattern)
                 /\ \/ PathOf(args.file_path) # DirPath
                    \/ \A i \in 1..Len(SeenBy(s)) : ~FnMatch(args.pattern, SeenBy(s)[i])) =>
                    (st.out = <<>> /\ st.ended /\ st.err = NoError)

\* a stream over a missing root ended at its first request, while the
\* directory "d" holds files the pattern would match
C6_Witness ==
    \E s \in 1..Len(streams) :
        /\ Started(s)
        /\ born[streams[s].obj].args.file_path = <<"n">>
        /\ born[streams[s].obj].args.pattern = <<"*", ".", "t">>
        /\ Len(SeenBy(s)) = 3
        /\ streams[s].ended
        /\ streams[s].requests = 1

(***************************************************************************)
(* C7: iterating the source itself is the same as invoking it and          *)
(* iterating the stream: an invoked stream and a direct iteration that     *)
(* listed the same directory content deliver the same items in the same    *)
(* order and end the same way, and a direct iteration always starts on a   *)
(* generator of its own, from the first match.                             *)
(***************************************************************************)
C7_IterIsInvoke ==
    /\ \A s, t \in 1..Len(streams) :
          (/\ streams[s].via = "invoke" /\ streams[t].via = "iter"
           /\ streams[s].obj = streams[t].obj
           /\ Started(s) /\ Started(t)
           /\ SeenBy(s) = SeenBy(t)) =>
              LET a == streams[s].out
                  b == streams[t].out
                  n == IF Len(a) < Len(b) THEN Len(a) ELSE Len(b)
              IN  /\ SubSeq(a, 1, n) = SubSeq(b, 1, n)
                  /\ (streams[s].ended /\ streams[t].ended) =>
                        (a = b /\ streams[s].err = streams[t].err)
    /\ \A t \in 1..Len(streams) :
          (streams[t].via = "iter" /\ streams[t].gen # 0) =>
              /\ \A s \in 1..Len(streams) : s # t => streams[s].gen # streams[t].gen
              /\ ~streams[t].ended => Len(streams[t].out) = streams[t].requests
              /\ Started(t) => OwnPrefix(t)

\* an invoked stream and a direct iteration over the same directory content
\* were both consumed to the end of two items
C7_Witness ==
    \E s, t \in 1..Len(streams) :
        /\ streams[s].via = "invoke" /\ streams[t].via = "iter"
        /\ Started(s) /\ Started(t)
        /\ SeenBy(s) = SeenBy(t)
        /\ streams[s].ended /\ streams[t].ended
        /\ Len(streams[t].out) = 2

(***************************************************************************)
(* C8: a stream advances only on demand: before the first request nothing  *)
(* of the filesystem is read and no tag is computed, and at any time the   *)
(* generator has called the tag function at most once per request made and *)
(* has moved past no more matches than were requested.                     *)
(***************************************************************************)
C8_DemandDriven ==
    /\ \A g \in 1..Len(gens) :
          (\A s \in 1..Len(streams) : streams[s].gen = g => streams[s].requests = 0) =>
              (gens[g].status = "created" /\ gens[g].tagCalls = 0 /\ gens[g].fsReads = 0)
    /\ \A s \in 1..Len(streams) :
          streams[s].gen # 0 =>
              /\ gens[streams[s].gen].tagCalls <= streams[s].requests
              /\ gens[streams[s].gen].pos <= streams[s].requests
              /\ Len(streams[s].out) <= streams[s].requests

\* after one request on a walk of three matches, one tag has been computed
C8_Witness ==
    \E s \in 1..Len(streams) :
        /\ streams[s].requests = 1
        /\ Started(s)
        /\ Len(gens[streams[s].gen].files) = 3
        /\ gens[streams[s].gen].tagCalls = 1
        /\ Len(streams[s].out) = 1

(***************************************************************************)
(* C9: whatever was invoked, iterated, consumed in part or abandoned, each *)
(* descriptor has the name, file_path, pattern and tag_function, and so    *)
(* the hash, it had right after its construction.                          *)
(***************************************************************************)
C9_DescriptorUnchanged ==
    /\ Len(objs) = Len(born)
    /\ \A i \in 1..Len(objs) :
          /\ objs[i].name = born[i].self.name
          /\ objs[i].file_path = born[i].self.file_path
          /\ objs[i].pattern = born[i].self.pattern
          /\ objs[i].tag_function = born[i].self.tag_function
          /\ GlobSourceHash(objs[i]) = GlobSourceHash(born[i].self)

\* an invoked stream was consumed to its end and a direct iteration was
\* abandoned after one item
C9_Witness ==
    \E s, t \in 1..Len(streams) :
        /\ streams[s].via = "invoke" /\ streams[s].ended
        /\ streams[t].via = "iter" /\ ~streams[t].ended /\ Len(streams[t].out) = 1

(***************************************************************************)
(* C10, as the specification states it: repr renders the pattern-resolved  *)
(* path, then " ⇒ ", then the name.                                        *)
(***************************************************************************)
C10_Repr_Original ==
    last.op = "repr" =>
        LET self == born[last.a].self
        IN  last.text = PathStr(PathJoin(PathOf(self.file_path), self.pattern))
                            \o <<" ⇒ ", self.name>>

(***************************************************************************)
(* C10, amended: repr renders "GlobSource(", the pattern-resolved path,    *)
(* ")", " ⇒ " and the name; the path shown, read back as a path, has the   *)
(* parts of file_path followed by those of the pattern (those of the       *)
(* pattern alone when it is absolute).                                     *)
(***************************************************************************)
C10_Repr ==
    last.op = "repr" =>
        LET self == born[last.a].self
            n    == Len(last.text)
            mid  == SubSeq(last.text, 3, n - 3)
            root == PathOf(self.file_path)
            pat  == PathOf(self.pattern)
        IN  /\ n >= 6
            /\ SubSeq(last.text, 1, 2) = <<"GlobSource", "(">>
            /\ SubSeq(last.text, n - 2, n) = <<")", " ⇒ ", self.name>>
            /\ PathOf(mid) = IF pat.root THEN pat
                             ELSE [root |-> root.root, parts |-> root.parts \o pat.parts]
            /\ mid = PathStr(PathOf(mid))

\* the repr of a descriptor whose root is written "d/" and whose pattern is "*.t"
C10_Witness ==
    /\ last.op = "repr"
    /\ born[last.a].self.file_path = <<"d", "/">>
    /\ last.text = <<"GlobSource", "(", "d", "/", "*", ".", "t", ")", " ⇒ ", "txt_file">>

=============================================================================
